---- MODULE Spec2Model ----
(***************************************************************************)
(* Model of MeshCore/Scripts/generate_reference_bytes.py: the generator    *)
(* of the reference byte vectors (PacketBuilder commands and Cayenne LPP   *)
(* entries) and of the Swift fixture file printed from them.               *)
(*                                                                         *)
(* Bytes are integers 0..255, a bytes object is a sequence of them.  A     *)
(* Python str is a sequence of code points; str.encode is Utf8Encode.  A   *)
(* hex string is a sequence of one-character strings.  A dict is a         *)
(* sequence of [name, data] records in insertion order.  A decimal literal *)
(* is the pair num/den of its exact value; for every literal of the script *)
(* the binary floating-point product equals the exact decimal product.     *)
(***************************************************************************)
EXTENDS Integers, Sequences, FiniteSets, TLC

VARIABLES
    args,        \* the literal arguments written into the script's statements
    pc,          \* position of main
    k,           \* statements already executed in the running generate_* function
    references,  \* `references` of generate_packet_builder_references
    lppRefs,     \* `references` of generate_lpp_references(_manual)
    lppPath,     \* "none", "library" (import succeeded) or "manual" (ImportError)
    out,         \* lines printed to stdout
    err          \* lines printed to stderr

vars == <<args, pc, k, references, lppRefs, lppPath, out, err>>

\* ------------------------------------------------------------------ bounds

\* longest client id (in characters) drawn as an argument
MaxClientIdLen == 7
\* longest destination prefix (in bytes) drawn as an argument
MaxPrefixBytes == 34
\* longest channel name (in characters) drawn as an argument
MaxNameLen == 34

\* --------------------------------------------------------- Python builtins

REFERENCE_TIMESTAMP == 1704067200

Pow256(n) == IF n = 0 THEN 1 ELSE IF n = 1 THEN 256 ELSE IF n = 2 THEN 65536 ELSE 16777216

\* int.to_bytes raises OverflowError when the value does not fit the width
Fits(n, length, signed) ==
    LET top == n \div Pow256(length - 1)
    IN  IF signed THEN -128 <= top /\ top <= 127 ELSE 0 <= top /\ top <= 255

\* faulty variant: the bytes in big-endian order
to_bytes_little_reversed(n, length, signed) ==
    [i \in 1..length |-> (n \div Pow256(length - i)) % 256]

\* int.to_bytes(length, "little", signed=...): two's complement, low byte first
to_bytes_little(n, length, signed) ==
    IF Fits(n, length, signed)
    THEN [i \in 1..length |-> (n \div Pow256(i - 1)) % 256]
    ELSE <<"OverflowError">>

\* the big-endian byte order of the Cayenne LPP fields
to_bytes_big(n, length, signed) ==
    IF Fits(n, length, signed)
    THEN [i \in 1..length |-> (n \div Pow256(length - i)) % 256]
    ELSE <<"OverflowError">>

\* str.encode("utf-8") on a sequence of code points (up to U+FFFF)
Utf8Char(c) ==
    IF c < 128 THEN <<c>>
    ELSE IF c < 2048 THEN <<192 + (c \div 64), 128 + (c % 64)>>
    ELSE <<224 + (c \div 4096), 128 + ((c \div 64) % 64), 128 + (c % 64)>>

RECURSIVE Utf8Encode(_)
Utf8Encode(s) == IF s = <<>> THEN <<>> ELSE Utf8Char(Head(s)) \o Utf8Encode(Tail(s))

\* faulty variant: the fill goes to the left
ljust_left(s, width, fill) ==
    IF Len(s) >= width THEN s ELSE [i \in 1..(width - Len(s)) |-> fill] \o s

\* bytes.ljust / str.ljust: pads on the right, never truncates
ljust(s, width, fill) ==
    IF Len(s) >= width THEN s ELSE s \o [i \in 1..(width - Len(s)) |-> fill]

HexDigits == <<"0", "1", "2", "3", "4", "5", "6", "7", "8", "9", "A", "B", "C", "D", "E", "F">>

HexVal(c) == (CHOOSE i \in 1..16 : HexDigits[i] = c) - 1

\* bytes.fromhex: two hex characters per byte (ValueError on an odd count)
fromhex(h) ==
    IF Len(h) % 2 = 0
    THEN [i \in 1..(Len(h) \div 2) |-> 16 * HexVal(h[2 * i - 1]) + HexVal(h[2 * i])]
    ELSE <<"ValueError">>

\* bytes(range(n))
BytesRange(n) == [i \in 1..n |-> i - 1]

\* int(x * scale) for the decimal x = num/den: truncation toward zero
TruncDiv(a, b) == IF a >= 0 THEN a \div b ELSE -((-a) \div b)

IntScaled(num, den, scale) ==
    IF scale % den = 0 THEN num * (scale \div den) ELSE TruncDiv(num, den \div scale)

\* dict[key] = value: a new key is appended, an existing key keeps its place
DictSet(d, key, value) ==
    IF \E i \in 1..Len(d) : d[i].name = key
    THEN [i \in 1..Len(d) |-> IF d[i].name = key THEN [name |-> key, data |-> value] ELSE d[i]]
    ELSE Append(d, [name |-> key, data |-> value])

\* ------------------------------------------- the script's literal arguments

LiteralArgs ==
    [ client_id  |-> <<77, 67, 111, 114, 101>>,                      \* "MCore"
      prefix_hex |-> <<"0", "1", "2", "3", "4", "5", "6", "7", "8", "9", "A", "B">>,
      name       |-> <<71, 101, 110, 101, 114, 97, 108>> ]           \* "General"

\* --------------------------------------------------- PacketBuilder frames

\* faulty variant: the client id cut to 5 bytes
appStart_truncated(client_id) ==
    <<1, 3>> \o Utf8Encode(<<32, 32, 32, 32, 32, 32>>)
             \o SubSeq(Utf8Encode(client_id), 1, IF Len(Utf8Encode(client_id)) < 5
                                                 THEN Len(Utf8Encode(client_id)) ELSE 5)

appStart(client_id) ==
    <<1, 3>> \o Utf8Encode(<<32, 32, 32, 32, 32, 32>>) \o Utf8Encode(client_id)

setTime(timestamp) == <<6>> \o to_bytes_little(timestamp, 4, FALSE)

setCoords ==
    <<14>> \o to_bytes_little(IntScaled(377749, 10000, 1000000), 4, TRUE)
           \o to_bytes_little(IntScaled(-1224194, 10000, 1000000), 4, TRUE)
           \o to_bytes_little(0, 4, FALSE)

setRadio ==
    <<11>> \o to_bytes_little(IntScaled(906875, 1000, 1000), 4, FALSE)
           \o to_bytes_little(IntScaled(2500, 10, 1000), 4, FALSE)
           \o to_bytes_little(11, 1, FALSE)
           \o to_bytes_little(8, 1, FALSE)

\* dst = bytes.fromhex("0123456789AB")
dst(prefix_hex) == fromhex(prefix_hex)

\* ts = REFERENCE_TIMESTAMP.to_bytes(4, "little")
ts == to_bytes_little(REFERENCE_TIMESTAMP, 4, FALSE)

sendMessage(prefix_hex) ==
    <<2, 0, 0>> \o ts \o dst(prefix_hex) \o Utf8Encode(<<72, 101, 108, 108, 111>>)

sendCommand(prefix_hex) ==
    <<2, 1, 0>> \o ts \o dst(prefix_hex) \o Utf8Encode(<<115, 116, 97, 116, 117, 115>>)

sendChannelMessage == <<3, 0, 0>> \o ts \o Utf8Encode(<<72, 105>>)

\* dst32 = bytes.fromhex("0123456789AB".ljust(64, '0'))
dst32(prefix_hex) == fromhex(ljust(prefix_hex, 64, "0"))

sendLogin(prefix_hex) ==
    <<26>> \o dst32(prefix_hex) \o Utf8Encode(<<115, 101, 99, 114, 101, 116>>)

sendLogout(prefix_hex) == <<29>> \o dst32(prefix_hex)

sendStatusRequest(prefix_hex) == <<27>> \o dst32(prefix_hex)

\* faulty variant: the secret starts at 1
setChannel_secret_from_one(name) ==
    <<32, 0>> \o ljust(Utf8Encode(name), 32, 0) \o [i \in 1..16 |-> i]

setChannel(name) == <<32, 0>> \o ljust(Utf8Encode(name), 32, 0) \o BytesRange(16)

\* faulty variant: the byte after the opcode is left out
pathDiscovery_no_zero(prefix_hex) == <<52>> \o dst32(prefix_hex)

pathDiscovery(prefix_hex) == <<52, 0>> \o dst32(prefix_hex)

sendTrace ==
    <<36>> \o to_bytes_little(12345, 4, FALSE) \o to_bytes_little(67890, 4, FALSE) \o <<0>>

\* the assignments references[...] = ... of generate_packet_builder_references,
\* in statement order
PacketBuilderSteps(a) ==
    << <<"appStart", appStart(a.client_id)>>,
       <<"deviceQuery", <<22, 3>> >>,
       <<"getBattery", <<20>> >>,
       <<"getTime", <<5>> >>,
       <<"setTime_1704067200", setTime(REFERENCE_TIMESTAMP)>>,
       <<"setName_TestNode", <<8>> \o Utf8Encode(<<84, 101, 115, 116, 78, 111, 100, 101>>)>>,
       <<"setCoords_SF", setCoords>>,
       <<"setTxPower_20", <<12>> \o to_bytes_little(20, 4, FALSE)>>,
       <<"setRadio_default", setRadio>>,
       <<"sendAdvertisement", <<7>> >>,
       <<"sendAdvertisement_flood", <<7, 1>> >>,
       <<"reboot", <<19>> \o <<114, 101, 98, 111, 111, 116>> >>,
       <<"getContacts", <<4>> >>,
       <<"getMessage", <<10>> >>,
       <<"sendMessage_Hello", sendMessage(a.prefix_hex)>>,
       <<"sendCommand_status", sendCommand(a.prefix_hex)>>,
       <<"sendChannelMessage_0_Hi", sendChannelMessage>>,
       <<"sendLogin", sendLogin(a.prefix_hex)>>,
       <<"sendLogout", sendLogout(a.prefix_hex)>>,
       <<"sendStatusRequest", sendStatusRequest(a.prefix_hex)>>,
       <<"getChannel_0", <<31, 0>> >>,
       <<"setChannel_0_General", setChannel(a.name)>>,
       <<"getStatsCore", <<56, 0>> >>,
       <<"getStatsRadio", <<56, 1>> >>,
       <<"getStatsPackets", <<56, 2>> >>,
       <<"getSelfTelemetry", <<39, 0, 0, 0>> >>,
       <<"exportPrivateKey", <<23>> >>,
       <<"signStart", <<33>> >>,
       <<"signFinish", <<35>> >>,
       <<"pathDiscovery", pathDiscovery(a.prefix_hex)>>,
       <<"sendTrace", sendTrace>> >>


generate_packet_builder_references(a) ==
    LET steps == PacketBuilderSteps(a)
        RECURSIVE Run(_, _)
        Run(d, n) == IF n > Len(steps) THEN d
                     ELSE Run(DictSet(d, steps[n][1], steps[n][2]), n + 1)
    IN  Run(<<>>, 1)

\* ------------------------------------------------------------- LPP entries

\* round half away from zero of a/b, b > 0
RoundDiv(a, b) ==
    IF a >= 0 THEN (2 * a + b) \div (2 * b) ELSE -((2 * (-a) + b) \div (2 * b))

\* the integers a Cayenne LPP encoder may store for the decimal num/den times
\* scale: the product truncated, or rounded to nearest
LppScaled(num, den, scale) ==
    IF scale % den = 0
    THEN {num * (scale \div den)}
    ELSE {TruncDiv(num, den \div scale), RoundDiv(num, den \div scale)}

\* one component: big-endian, two's complement where signed
LppField(v, width, signed) == to_bytes_big(v, width, signed)

\* faulty variant: the barometer value rounded up (0x2795)
LppManualSteps_rounded ==
    << <<"lpp_temperature_25_5", <<1, 103, 0, 255>> >>,
       <<"lpp_humidity_65", <<2, 104, 130>> >>,
       <<"lpp_analog_3_3", <<3, 2, 1, 74>> >>,
       <<"lpp_gps_sf", <<4, 136, 5, 195, 149, 237, 81, 254, 0, 3, 232>> >>,
       <<"lpp_barometer_1013", <<5, 115, 39, 149>> >>,
       <<"lpp_accelerometer_1g", <<6, 113, 0, 0, 0, 0, 3, 232>> >> >>

\* faulty variant: the longitude stored without its sign (1224194 = 0x12AE02)
LppManualSteps_unsigned_lon ==
    << <<"lpp_temperature_25_5", <<1, 103, 0, 255>> >>,
       <<"lpp_humidity_65", <<2, 104, 130>> >>,
       <<"lpp_analog_3_3", <<3, 2, 1, 74>> >>,
       <<"lpp_gps_sf", <<4, 136, 5, 195, 149, 18, 174, 2, 0, 3, 232>> >>,
       <<"lpp_barometer_1013", <<5, 115, 39, 148>> >>,
       <<"lpp_accelerometer_1g", <<6, 113, 0, 0, 0, 0, 3, 232>> >> >>

\* the assignments of generate_lpp_references_manual, in statement order
LppManualSteps ==
    << <<"lpp_temperature_25_5", <<1, 103, 0, 255>> >>,
       <<"lpp_humidity_65", <<2, 104, 130>> >>,
       <<"lpp_analog_3_3", <<3, 2, 1, 74>> >>,
       <<"lpp_gps_sf", <<4, 136, 5, 195, 149, 237, 81, 254, 0, 3, 232>> >>,
       <<"lpp_barometer_1013", <<5, 115, 39, 148>> >>,
       <<"lpp_accelerometer_1g", <<6, 113, 0, 0, 0, 0, 3, 232>> >> >>

generate_lpp_references_manual ==
    LET RECURSIVE Run(_, _)
        Run(d, n) == IF n > Len(LppManualSteps) THEN d
                     ELSE Run(DictSet(d, LppManualSteps[n][1], LppManualSteps[n][2]), n + 1)
    IN  Run(<<>>, 1)

\* the frames LppFrame().add_*(...) followed by frame.bytes() may return: the
\* cayennelpp package is not part of the script, so each scaled value is any of
\* LppScaled
add_temperature(channel, num, den) ==
    {<<channel, 103>> \o LppField(v, 2, TRUE) : v \in LppScaled(num, den, 10)}

add_humidity(channel, num, den) ==
    {<<channel, 104>> \o LppField(v, 1, FALSE) : v \in LppScaled(num, den, 2)}

add_analog_input(channel, num, den) ==
    {<<channel, 2>> \o LppField(v, 2, TRUE) : v \in LppScaled(num, den, 100)}

add_gps(channel, latNum, lonNum, den, altNum, altDen) ==
    {<<channel, 136>> \o LppField(lat, 3, TRUE) \o LppField(lon, 3, TRUE) \o LppField(alt, 3, TRUE) :
        <<lat, lon, alt>> \in LppScaled(latNum, den, 10000) \X LppScaled(lonNum, den, 10000)
                              \X LppScaled(altNum, altDen, 100)}

add_barometric_pressure(channel, num, den) ==
    {<<channel, 115>> \o LppField(v, 2, FALSE) : v \in LppScaled(num, den, 10)}

add_accelerometer(channel, x, y, z) ==
    {<<channel, 113>> \o LppField(1000 * x, 2, TRUE) \o LppField(1000 * y, 2, TRUE)
                      \o LppField(1000 * z, 2, TRUE)}

\* faulty variant: the library path names the analog entry differently
LppLibrarySteps_renamed ==
    << <<"lpp_temperature_25_5", add_temperature(1, 255, 10)>>,
       <<"lpp_humidity_65", add_humidity(2, 65, 1)>>,
       <<"lpp_voltage_3_3", add_analog_input(3, 33, 10)>>,
       <<"lpp_gps_sf", add_gps(4, 377749, -1224194, 10000, 10, 1)>>,
       <<"lpp_barometer_1013", add_barometric_pressure(5, 101325, 100)>>,
       <<"lpp_accelerometer_1g", add_accelerometer(6, 0, 0, 1)>> >>

\* the assignments of generate_lpp_references after a successful import, in
\* statement order, each with the set of frames the library may return
LppLibrarySteps ==
    << <<"lpp_temperature_25_5", add_temperature(1, 255, 10)>>,
       <<"lpp_humidity_65", add_humidity(2, 65, 1)>>,
       <<"lpp_analog_3_3", add_analog_input(3, 33, 10)>>,
       <<"lpp_gps_sf", add_gps(4, 377749, -1224194, 10000, 10, 1)>>,
       <<"lpp_barometer_1013", add_barometric_pressure(5, 101325, 100)>>,
       <<"lpp_accelerometer_1g", add_accelerometer(6, 0, 0, 1)>> >>

\* ------------------------------------------------------------ Swift output

Hex2(b) == "0x" \o HexDigits[(b \div 16) + 1] \o HexDigits[(b % 16) + 1]

RECURSIVE JoinHex(_)
JoinHex(data) ==
    IF data = <<>> THEN ""
    ELSE IF Len(data) = 1 THEN Hex2(data[1])
    ELSE Hex2(Head(data)) \o ", " \o JoinHex(Tail(data))

to_swift_data(name, data) ==
    "    static let " \o name \o " = Data([" \o JoinHex(data) \o "])"

HeaderLines ==
    << "// Auto-generated by generate_reference_bytes.py",
       "// DO NOT EDIT - regenerate with: python3 Scripts/generate_reference_bytes.py",
       "import Foundation",
       "",
       "/// Reference bytes generated from meshcore_py Python library",
       "enum PythonReferenceBytes {",
       "",
       "    // MARK: - PacketBuilder References",
       "" >>

MarkerLines ==
    << "",
       "    // MARK: - LPP References (from cayennelpp)",
       "" >>

CloseLine == "}"

ImportErrorLine == "// cayennelpp not installed, LPP references generated manually"

\* ------------------------------------------------------------------- main

TypeOK ==
    /\ pc \in {"header", "packet_builder", "print_packet_builder", "marker", "import",
               "lpp_library", "lpp_manual", "print_lpp", "close", "done"}
    /\ k \in Nat
    /\ lppPath \in {"none", "library", "manual"}

InitWith(a) ==
    /\ args = a
    /\ pc = "header"
    /\ k = 0
    /\ references = <<>>
    /\ lppRefs = <<>>
    /\ lppPath = "none"
    /\ out = <<>>
    /\ err = <<>>

\* the script as written
Init == InitWith(LiteralArgs)

\* print(...) of the header, one line per step
PrintHeader ==
    /\ pc = "header"
    /\ out' = Append(out, HeaderLines[k + 1])
    /\ IF k + 1 = Len(HeaderLines)
       THEN pc' = "packet_builder" /\ k' = 0
       ELSE pc' = pc /\ k' = k + 1
    /\ UNCHANGED <<args, references, lppRefs, lppPath, err>>

\* one assignment of generate_packet_builder_references; after the last one the
\* function returns its dict to main's first loop
BuildPacketBuilderReference ==
    /\ pc = "packet_builder"
    /\ LET step == PacketBuilderSteps(args)[k + 1]
       IN  references' = DictSet(references, step[1], step[2])
    /\ IF k + 1 = Len(PacketBuilderSteps(args))
       THEN pc' = "print_packet_builder" /\ k' = 0
       ELSE pc' = pc /\ k' = k + 1
    /\ UNCHANGED <<args, lppRefs, lppPath, out, err>>

\* faulty variant: the loop runs over the dict in reverse order
PrintPacketBuilderReference_reversed ==
    /\ pc = "print_packet_builder"
    /\ k < Len(references)
    /\ LET r == references[Len(references) - k]
       IN  out' = Append(out, to_swift_data(r.name, r.data))
    /\ IF k + 1 = Len(references)
       THEN pc' = "marker" /\ k' = 0
       ELSE pc' = pc /\ k' = k + 1
    /\ UNCHANGED <<args, references, lppRefs, lppPath, err>>

\* one iteration of `for name, data in generate_packet_builder_references().items()`
PrintPacketBuilderReference ==
    /\ pc = "print_packet_builder"
    /\ k < Len(references)
    /\ out' = Append(out, to_swift_data(references[k + 1].name, references[k + 1].data))
    /\ IF k + 1 = Len(references)
       THEN pc' = "marker" /\ k' = 0
       ELSE pc' = pc /\ k' = k + 1
    /\ UNCHANGED <<args, references, lppRefs, lppPath, err>>

\* the three prints between the loops
PrintMarker ==
    /\ pc = "marker"
    /\ out' = Append(out, MarkerLines[k + 1])
    /\ IF k + 1 = Len(MarkerLines)
       THEN pc' = "import" /\ k' = 0
       ELSE pc' = pc /\ k' = k + 1
    /\ UNCHANGED <<args, references, lppRefs, lppPath, err>>

\* `from cayennelpp import LppFrame` succeeds
ImportCayenne ==
    /\ pc = "import"
    /\ pc' = "lpp_library"
    /\ lppPath' = "library"
    /\ UNCHANGED <<args, k, references, lppRefs, out, err>>

\* the import raises ImportError: the message goes to stderr and the manual
\* generator is called
ImportFails ==
    /\ pc = "import"
    /\ err' = Append(err, ImportErrorLine)
    /\ pc' = "lpp_manual"
    /\ lppPath' = "manual"
    /\ UNCHANGED <<args, k, references, lppRefs, out>>

\* one frame built with the library and stored
BuildLppLibraryReference ==
    /\ pc = "lpp_library"
    /\ LET step == LppLibrarySteps[k + 1]
       IN  \E data \in step[2] : lppRefs' = DictSet(lppRefs, step[1], data)
    /\ IF k + 1 = Len(LppLibrarySteps)
       THEN pc' = "print_lpp" /\ k' = 0
       ELSE pc' = pc /\ k' = k + 1
    /\ UNCHANGED <<args, references, lppPath, out, err>>

\* one assignment of generate_lpp_references_manual
BuildLppManualReference ==
    /\ pc = "lpp_manual"
    /\ LET step == LppManualSteps[k + 1]
       IN  lppRefs' = DictSet(lppRefs, step[1], step[2])
    /\ IF k + 1 = Len(LppManualSteps)
       THEN pc' = "print_lpp" /\ k' = 0
       ELSE pc' = pc /\ k' = k + 1
    /\ UNCHANGED <<args, references, lppPath, out, err>>

\* one iteration of `for name, data in generate_lpp_references().items()`
PrintLppReference ==
    /\ pc = "print_lpp"
    /\ k < Len(lppRefs)
    /\ out' = Append(out, to_swift_data(lppRefs[k + 1].name, lppRefs[k + 1].data))
    /\ IF k + 1 = Len(lppRefs)
       THEN pc' = "close" /\ k' = 0
       ELSE pc' = pc /\ k' = k + 1
    /\ UNCHANGED <<args, references, lppRefs, lppPath, err>>

\* print("}")
PrintClose ==
    /\ pc = "close"
    /\ out' = Append(out, CloseLine)
    /\ pc' = "done"
    /\ UNCHANGED <<args, k, references, lppRefs, lppPath, err>>

Next ==
    \/ PrintHeader
    \/ BuildPacketBuilderReference
    \/ PrintPacketBuilderReference
    \/ PrintMarker
    \/ ImportCayenne
    \/ ImportFails
    \/ BuildLppLibraryReference
    \/ BuildLppManualReference
    \/ PrintLppReference
    \/ PrintClose

Spec == Init /\ [][Next]_vars


\* ------------------------------------ the statements applied to other inputs

\* n characters "A", "B", "C", ...
PatternText(n) == [i \in 1..n |-> 65 + ((i - 1) % 26)]

\* the hex string of n non-zero bytes 0x11, 0x12, ...
PatternHex(n) ==
    [i \in 1..(2 * n) |->
        LET b == 16 + ((i + 1) \div 2)
        IN  IF i % 2 = 1 THEN HexDigits[(b \div 16) + 1] ELSE HexDigits[(b % 16) + 1]]

ClientIds ==
    {PatternText(n) : n \in 0..MaxClientIdLen} \cup {<<77, 233>>, <<77, 67, 111, 114, 233>>}

PrefixHexes == {PatternHex(n) : n \in 0..MaxPrefixBytes}

Names ==
    {PatternText(n) : n \in 0..MaxNameLen}
    \cup {PatternText(30) \o <<233>>, PatternText(31) \o <<233>>, PatternText(29) \o <<8364>>}

\* the script's arguments, or the script's arguments with one of them replaced
ArgSets ==
    {LiteralArgs}
    \cup {[LiteralArgs EXCEPT !.client_id = c] : c \in ClientIds}
    \cup {[LiteralArgs EXCEPT !.prefix_hex = h] : h \in PrefixHexes}
    \cup {[LiteralArgs EXCEPT !.name = n] : n \in Names}

InitArgs == \E a \in ArgSets : InitWith(a)

SpecArgs == InitArgs /\ [][Next]_vars


\* ----------------------------------------------------------------- claims

\* the keys of a dict, in its order
Keys(d) == [i \in 1..Len(d) |-> d[i].name]

HasKey(d, key) == \E i \in 1..Len(d) : d[i].name = key

\* d[key]
Get(d, key) == d[CHOOSE i \in 1..Len(d) : d[i].name = key].data

Frame(name) == Get(references, name)

Zeros(n) == [i \in 1..n |-> 0]

\* the destination prefix as bytes
PrefixBytes == fromhex(args.prefix_hex)

Min(a, b) == IF a < b THEN a ELSE b

\* C1 as stated: the setTime frame for 1704067200 is the six bytes
\* 06 00 AC 65 A5 65.
C1_Original ==
    HasKey(references, "setTime_1704067200")
        => Frame("setTime_1704067200") = <<6, 0, 172, 101, 165, 101>>

\* C1 amended: the setTime frame for 1704067200 is the five bytes 06 80 00 92 65,
\* the opcode 0x06 and the 4-byte little-endian unsigned encoding of 1704067200,
\* and the same 4 bytes are the timestamp field (offset 3) of sendMessage,
\* sendCommand and sendChannelMessage.
C1_SetTimeFrame ==
    /\ HasKey(references, "setTime_1704067200") =>
         LET f == Frame("setTime_1704067200")
         IN  /\ f = <<6, 128, 0, 146, 101>>
             /\ f[2] + 256 * f[3] + 65536 * f[4] + 16777216 * f[5] = 1704067200
    /\ \A n \in {"sendMessage_Hello", "sendCommand_status", "sendChannelMessage_0_Hi"} :
         HasKey(references, n) => SubSeq(Frame(n), 4, 7) = <<128, 0, 146, 101>>

C1_Witness ==
    /\ HasKey(references, "setTime_1704067200")
    /\ HasKey(references, "sendChannelMessage_0_Hi")

\* the destination field of a frame that uses the 32-byte form: what follows the
\* command bytes and precedes the password
Dst32Field(name) ==
    LET f == Frame(name)
    IN  IF name = "sendLogin" THEN SubSeq(f, 2, Len(f) - 6)
        ELSE IF name = "pathDiscovery" THEN SubSeq(f, 3, Len(f))
        ELSE SubSeq(f, 2, Len(f))

Dst32Frames == {"sendLogin", "sendLogout", "sendStatusRequest", "pathDiscovery"}

C3_Original ==
    HasKey(references, "pathDiscovery") =>
        /\ Len(Frame("pathDiscovery")) = 33
        /\ Frame("pathDiscovery")[1] = 52
        /\ Tail(Frame("pathDiscovery")) = Tail(Frame("sendLogout"))

\* C3 amended: the pathDiscovery frame is the opcode 0x34, one zero byte, then
\* the 32-byte zero-padded destination: 34 bytes, the destination at offset 2,
\* one byte later than in sendLogout and sendStatusRequest (33 bytes, offset 1).
C3_PathDiscoveryFrame ==
    HasKey(references, "pathDiscovery") =>
        LET f == Frame("pathDiscovery")
        IN  /\ Len(f) = 34
            /\ f[1] = 52
            /\ f[2] = 0
            /\ SubSeq(f, 3, 34) = <<1, 35, 69, 103, 137, 171>> \o Zeros(26)
            /\ Len(Frame("sendLogout")) = 33
            /\ Len(Frame("sendStatusRequest")) = 33
            /\ SubSeq(f, 3, 34) = Tail(Frame("sendLogout"))
            /\ SubSeq(f, 3, 34) = Tail(Frame("sendStatusRequest"))

C3_Witness ==
    /\ HasKey(references, "pathDiscovery")
    /\ Frame("pathDiscovery")[3] = 1

\* C4 as stated: the barometric pressure entry written by the script stores
\* 1013.25 x 10 rounded to nearest, 10133: 05 73 27 95.
C4_Original ==
    (lppPath = "manual" /\ HasKey(lppRefs, "lpp_barometer_1013")) =>
        /\ Get(lppRefs, "lpp_barometer_1013") = <<5, 115, 39, 149>>
        /\ Get(lppRefs, "lpp_barometer_1013")
             = <<5, 115>> \o to_bytes_big(RoundDiv(101325, 10), 2, FALSE)

\* C4 amended: the barometric pressure entry written by the script stores
\* 1013.25 x 10 rounded down (truncated), 10132, as an unsigned 16-bit
\* big-endian number after [channel][0x73]: 05 73 27 94.
C4_BarometerTruncated ==
    (lppPath = "manual" /\ HasKey(lppRefs, "lpp_barometer_1013")) =>
        LET e == Get(lppRefs, "lpp_barometer_1013")
        IN  /\ e = <<5, 115, 39, 148>>
            /\ 256 * e[3] + e[4] = 10132
            /\ 256 * e[3] + e[4] = TruncDiv(101325, 10)
            /\ 256 * e[3] + e[4] # RoundDiv(101325, 10)

C4_Witness == lppPath = "manual" /\ HasKey(lppRefs, "lpp_barometer_1013")

C6_SetChannelFrame ==
    (HasKey(references, "setChannel_0_General") /\ Len(Utf8Encode(args.name)) <= 32) =>
        LET f == Frame("setChannel_0_General")
            n == Utf8Encode(args.name)
        IN  /\ Len(f) = 50
            /\ f[1] = 32
            /\ f[2] = 0
            /\ SubSeq(f, 3, 2 + Len(n)) = n
            /\ \A i \in (3 + Len(n))..34 : f[i] = 0
            /\ \A j \in 0..15 : f[35 + j] = j
            /\ args.name = <<71, 101, 110, 101, 114, 97, 108>>
                 => SubSeq(f, 1, 10) = <<32, 0, 71, 101, 110, 101, 114, 97, 108, 0>>

C6_Witness ==
    /\ HasKey(references, "setChannel_0_General")
    /\ Len(Utf8Encode(args.name)) = 32
    /\ Len(args.name) = 31
    /\ Frame("setChannel_0_General")[35] = 0
    /\ Frame("setChannel_0_General")[50] = 15

\* a 24-bit value, high byte first
Be24(v) == <<v \div 65536, (v \div 256) % 256, v % 256>>

\* C8: the GPS entry for channel 4, lat 37.7749, lon -122.4194, alt 10.0 is
\* 04 88 05 C3 95 ED 51 FE 00 03 E8: [channel][0x88], then 377749, -1224194
\* mod 2^24 and 1000 as 24-bit big-endian integers.
C8_GpsEntry ==
    HasKey(lppRefs, "lpp_gps_sf") =>
        /\ Get(lppRefs, "lpp_gps_sf") = <<4, 136, 5, 195, 149, 237, 81, 254, 0, 3, 232>>
        /\ Get(lppRefs, "lpp_gps_sf")
             = <<4, 136>> \o Be24(377749) \o Be24(16777216 - 1224194) \o Be24(1000)

C8_Witness == lppPath = "manual" /\ HasKey(lppRefs, "lpp_gps_sf")

SixLppNames ==
    <<"lpp_temperature_25_5", "lpp_humidity_65", "lpp_analog_3_3", "lpp_gps_sf",
      "lpp_barometer_1013", "lpp_accelerometer_1g">>

LppReturned == pc \in {"print_lpp", "close", "done"}

\* C9: generate_lpp_references returns a complete result: after a failed import
\* exactly the dict of generate_lpp_references_manual, and on the library path
\* and on the manual path a dict of the same six names, so that main prints the
\* same six LPP declarations' names either way.
C9_LppComplete ==
    /\ LppReturned => (lppPath \in {"library", "manual"} /\ Keys(lppRefs) = SixLppNames)
    /\ (LppReturned /\ lppPath = "manual") =>
         (lppRefs = generate_lpp_references_manual /\ err = <<ImportErrorLine>>)
    /\ (LppReturned /\ lppPath = "library") => err = <<>>
    /\ pc = "done" =>
         \A i \in 1..6 : out[43 + i] = to_swift_data(SixLppNames[i], lppRefs[i].data)

C9_Witness == pc = "print_lpp" /\ k = 0 /\ lppPath = "manual" /\ Len(lppRefs) = 6

AllNames == Keys(references) \o Keys(lppRefs)

\* C10: the output of main is, in order, the 9 header lines (the enum opened in
\* the sixth), one `static let` line per PacketBuilder reference in insertion
\* order, the 3 marker lines, one `static let` line per LPP reference, and the
\* closing brace last; no name is declared twice, and every PacketBuilder
\* declaration precedes every LPP declaration.
C10_OutputOrder ==
    /\ \A i \in 1..Len(out) :
         IF i <= 9 THEN out[i] = HeaderLines[i]
         ELSE IF i <= 40
              THEN /\ Len(references) = 31
                   /\ out[i] = to_swift_data(references[i - 9].name, references[i - 9].data)
         ELSE IF i <= 43 THEN out[i] = MarkerLines[i - 40]
         ELSE IF i <= 49
              THEN /\ Len(lppRefs) = 6
                   /\ out[i] = to_swift_data(lppRefs[i - 43].name, lppRefs[i - 43].data)
         ELSE i = 50 /\ out[i] = "}" /\ pc = "done"
    /\ pc = "done" => Len(out) = 50
    /\ \A i, j \in 1..Len(AllNames) : i # j => AllNames[i] # AllNames[j]
    /\ \A i, j \in 1..Len(out) : (i # j /\ out[i] = out[j]) => out[i] = ""
    /\ Len(out) >= 6 => out[6] = "enum PythonReferenceBytes {"
    /\ Len(out) >= 13 => out[13] = "    static let getTime = Data([0x05])"
    /\ Len(out) >= 14 => out[14] = "    static let setTime_1704067200 = Data([0x06, 0x80, 0x00, 0x92, 0x65])"
    /\ Len(out) >= 40 => out[40] = "    static let sendTrace = Data([0x24, 0x39, 0x30, 0x00, 0x00, 0x32, 0x09, 0x01, 0x00, 0x00])"
    /\ Len(out) >= 42 => out[42] = "    // MARK: - LPP References (from cayennelpp)"
    /\ Len(out) >= 44 => out[44] = "    static let lpp_temperature_25_5 = Data([0x01, 0x67, 0x00, 0xFF])"

C10_Witness == pc = "done" /\ Len(out) = 50 /\ out[50] = "}"

====
